---- MODULE Spec2Model ----
(***************************************************************************)
(* A model of the reversible-tokenization core of the PII removal tool     *)
(* (src/app.py): the JSON-file mapping store (load_json_file,              *)
(* save_json_file, load_mappings, save_mappings, clear_mappings) and the   *)
(* text transforms that use it (deidentify_text, reidentify_text,          *)
(* anonymize_text), run by the request handlers of a threaded web server.  *)
(*                                                                         *)
(* Texts, placeholders, stored values and the file's content are           *)
(* sequences of characters (one-character strings); the file holds the     *)
(* UTF-8 bytes of the JSON text json.dump writes.                          *)
(***************************************************************************)
EXTENDS Integers, Sequences, FiniteSets, TLC

(***************************************************************************)
(* Characters.  U_E9 stands for a non-ASCII character (e-acute), which     *)
(* UTF-8 encodes in the two bytes B_C3 B_A9.                               *)
(***************************************************************************)
QUOTE == "\""
BSLASH == "\\"
NL == "\n"
SP == " "
U_E9 == "U+00E9"
B_C3 == "0xC3"
B_A9 == "0xA9"

Min(a, b) == IF a < b THEN a ELSE b

\* Python's s[a:b] for 0 <= a, 0 <= b (both clamped to len(s)).
Slice(s, a, b) == SubSeq(s, Min(a, Len(s)) + 1, Min(b, Len(s)))

StartsWith(s, prefix) ==
    /\ Len(prefix) <= Len(s)
    /\ SubSeq(s, 1, Len(prefix)) = prefix

RECURSIVE Concat(_)
Concat(ss) == IF ss = <<>> THEN <<>> ELSE Head(ss) \o Concat(Tail(ss))

(***************************************************************************)
(* str.replace(old, new): every non-overlapping occurrence, left to right. *)
(***************************************************************************)
RECURSIVE ReplaceFrom(_, _, _, _)
ReplaceFrom(s, old, new, i) ==
    IF i > Len(s) THEN <<>>
    ELSE IF i + Len(old) - 1 <= Len(s) /\ SubSeq(s, i, i + Len(old) - 1) = old
         THEN new \o ReplaceFrom(s, old, new, i + Len(old))
         ELSE <<s[i]>> \o ReplaceFrom(s, old, new, i + 1)

RECURSIVE Interleave(_, _)
Interleave(s, new) ==
    IF s = <<>> THEN new ELSE new \o <<Head(s)>> \o Interleave(Tail(s), new)

StrReplace(s, old, new) ==
    IF old = <<>> THEN Interleave(s, new) ELSE ReplaceFrom(s, old, new, 1)

(***************************************************************************)
(* Placeholder format: f"{entity_type}_{n:03d}".                           *)
(***************************************************************************)
PadWidth == 3

DigitChars == <<"0", "1", "2", "3", "4", "5", "6", "7", "8", "9">>

RECURSIVE Decimal(_)
Decimal(n) ==
    IF n < 10 THEN <<DigitChars[n + 1]>>
    ELSE Decimal(n \div 10) \o <<DigitChars[(n % 10) + 1]>>

RECURSIVE ZeroPad(_, _)
ZeroPad(digits, width) ==
    IF Len(digits) >= width THEN digits ELSE ZeroPad(<<"0">> \o digits, width)

\* Variant for C4: the counter written without padding, f"{n}".
FormatUnpadded(entity_type, n) == entity_type \o <<"_">> \o Decimal(n)

FormatPlaceholder(entity_type, n) ==
    entity_type \o <<"_">> \o ZeroPad(Decimal(n), PadWidth)

(***************************************************************************)
(* A Python dict of strings, in insertion order: a sequence of <<key,      *)
(* value>> pairs with distinct keys.  A value as json.load returns it is   *)
(* tagged with its kind: "dict" (items: pairs) or "list" (items: strings). *)
(***************************************************************************)
DictKeys(items) == {items[i][1] : i \in DOMAIN items}

DictGet(items, k) == items[CHOOSE i \in DOMAIN items : items[i][1] = k][2]

\* d[k] = v: an existing key keeps its place, a new key goes last.
DictSet(items, k, v) ==
    IF k \in DictKeys(items)
    THEN [i \in DOMAIN items |-> IF items[i][1] = k THEN <<k, v>> ELSE items[i]]
    ELSE Append(items, <<k, v>>)

EmptyDict == [kind |-> "dict", items |-> <<>>]
MkDict(items) == [kind |-> "dict", items |-> items]

(***************************************************************************)
(* json.dump(data, f, indent=2, ensure_ascii=False), as characters.        *)
(***************************************************************************)
\* Variant for C10: a dump that does not escape its strings.
Unescaped(s) == s

RECURSIVE EscapeString(_)
EscapeString(s) ==
    IF s = <<>> THEN <<>>
    ELSE (IF Head(s) \in {QUOTE, BSLASH} THEN <<BSLASH, Head(s)>>
          ELSE IF Head(s) = NL THEN <<BSLASH, "n">>
          ELSE <<Head(s)>>) \o EscapeString(Tail(s))

DumpString(s) == <<QUOTE>> \o EscapeString(s) \o <<QUOTE>>

DumpItem(kind, item) ==
    IF kind = "dict"
    THEN DumpString(item[1]) \o <<":", SP>> \o DumpString(item[2])
    ELSE DumpString(item)

RECURSIVE DumpItems(_, _, _)
DumpItems(kind, items, i) ==
    IF i > Len(items) THEN <<>>
    ELSE (IF i = 1 THEN <<>> ELSE <<",">>) \o <<NL, SP, SP>>
         \o DumpItem(kind, items[i]) \o DumpItems(kind, items, i + 1)

JsonDump(data) ==
    LET open == IF data.kind = "dict" THEN "{" ELSE "["
        close == IF data.kind = "dict" THEN "}" ELSE "]"
    IN  IF data.items = <<>> THEN <<open, close>>
        ELSE <<open>> \o DumpItems(data.kind, data.items, 1) \o <<NL, close>>

(***************************************************************************)
(* The file's encoding (encoding='utf-8').                                 *)
(***************************************************************************)
\* The bytes of s[lo..hi], the two halves of the range one after the other.
RECURSIVE Utf8EncodeRange(_, _, _)
Utf8EncodeRange(s, lo, hi) ==
    IF lo > hi THEN <<>>
    ELSE IF lo = hi THEN (IF s[lo] = U_E9 THEN <<B_C3, B_A9>> ELSE <<s[lo]>>)
    ELSE Utf8EncodeRange(s, lo, (lo + hi) \div 2)
         \o Utf8EncodeRange(s, ((lo + hi) \div 2) + 1, hi)

Utf8Encode(s) == Utf8EncodeRange(s, 1, Len(s))

\* The decoder, one byte at a time: lead, whether B_C3 awaits its B_A9.
Utf8Start == [ok |-> TRUE, chars |-> <<>>, lead |-> FALSE]

Utf8Invalid == [ok |-> FALSE, chars |-> <<>>, lead |-> FALSE]

Utf8Step(st, b) ==
    IF ~st.ok THEN st
    ELSE IF st.lead
         THEN IF b = B_A9
              THEN [st EXCEPT !.chars = Append(st.chars, U_E9), !.lead = FALSE]
              ELSE Utf8Invalid
    ELSE IF b = B_C3 THEN [st EXCEPT !.lead = TRUE]
    ELSE IF b = B_A9 THEN Utf8Invalid
    ELSE [st EXCEPT !.chars = Append(st.chars, b)]

\* The state after bytes[lo..hi], read from state st (the left half of the
\* range, then the right half).
RECURSIVE Utf8Scan(_, _, _, _)
Utf8Scan(bytes, lo, hi, st) ==
    IF ~st.ok \/ lo > hi THEN st
    ELSE IF lo = hi THEN Utf8Step(st, bytes[lo])
    ELSE Utf8Scan(bytes, ((lo + hi) \div 2) + 1, hi,
                  Utf8Scan(bytes, lo, (lo + hi) \div 2, st))

\* [ok, chars]: ok is FALSE where Python raises UnicodeDecodeError.
Utf8Result(st) ==
    IF st.ok /\ ~st.lead THEN [ok |-> TRUE, chars |-> st.chars]
    ELSE [ok |-> FALSE, chars |-> <<>>]

Utf8Decode(bytes) == Utf8Result(Utf8Scan(bytes, 1, Len(bytes), Utf8Start))

(***************************************************************************)
(* json.load, for the JSON texts the model's files can hold (objects with  *)
(* string values, arrays of strings, strings), read one character at a     *)
(* time.  The reader's state: mode, what is expected next                  *)
(*   value   the document's value          first   a member or the close   *)
(*   member  a member (after a comma)      str     inside a string         *)
(*   esc     after a backslash             colon   the colon after a key   *)
(*   val     a key's value                 next    a comma or the close    *)
(*   end     nothing but whitespace        fail    json.JSONDecodeError    *)
(* kind ("dict", "list" or "str") and items, the value read so far; role,  *)
(* what the string being read is ("top", "key", "val", "elem"); key, the   *)
(* member's key; cur, the string's characters so far.  Of the escapes only *)
(* \" \\ and \n are read.                                                  *)
(***************************************************************************)
JsonStart ==
    [mode |-> "value", kind |-> "dict", items |-> <<>>, role |-> "top",
     key |-> <<>>, cur |-> <<>>]

IsWs(c) == c \in {SP, NL, "\t", "\r"}

CloseOf(kind) == IF kind = "dict" THEN "}" ELSE "]"

JsonFailed(st) == [st EXCEPT !.mode = "fail"]

StringStart(st, role) == [st EXCEPT !.mode = "str", !.role = role, !.cur = <<>>]

StringEnd(st) ==
    CASE st.role = "top" ->
           [st EXCEPT !.mode = "end", !.kind = "str", !.items = st.cur]
      [] st.role = "key" -> [st EXCEPT !.mode = "colon", !.key = st.cur]
      [] st.role = "val" ->
           [st EXCEPT !.mode = "next", !.items = DictSet(st.items, st.key, st.cur)]
      [] OTHER -> [st EXCEPT !.mode = "next", !.items = Append(st.items, st.cur)]

JsonStep(st, c) ==
    CASE st.mode = "fail" -> st
      [] st.mode = "str" ->
           IF c = QUOTE THEN StringEnd(st)
           ELSE IF c = BSLASH THEN [st EXCEPT !.mode = "esc"]
           ELSE IF c \in {NL, "\t", "\r"} THEN JsonFailed(st)
           ELSE [st EXCEPT !.cur = Append(st.cur, c)]
      [] st.mode = "esc" ->
           IF c \in {QUOTE, BSLASH}
           THEN [st EXCEPT !.mode = "str", !.cur = Append(st.cur, c)]
           ELSE IF c = "n"
                THEN [st EXCEPT !.mode = "str", !.cur = Append(st.cur, NL)]
                ELSE JsonFailed(st)
      [] IsWs(c) -> st
      [] st.mode = "value" ->
           IF c = QUOTE THEN StringStart(st, "top")
           ELSE IF c = "{" THEN [st EXCEPT !.mode = "first", !.kind = "dict"]
           ELSE IF c = "[" THEN [st EXCEPT !.mode = "first", !.kind = "list"]
           ELSE JsonFailed(st)
      [] st.mode \in {"first", "member"} ->
           IF c = QUOTE
           THEN StringStart(st, IF st.kind = "dict" THEN "key" ELSE "elem")
           ELSE IF st.mode = "first" /\ c = CloseOf(st.kind)
                THEN [st EXCEPT !.mode = "end"]
                ELSE JsonFailed(st)
      [] st.mode = "colon" ->
           IF c = ":" THEN [st EXCEPT !.mode = "val"] ELSE JsonFailed(st)
      [] st.mode = "val" ->
           IF c = QUOTE THEN StringStart(st, "val") ELSE JsonFailed(st)
      [] st.mode = "next" ->
           IF c = "," THEN [st EXCEPT !.mode = "member"]
           ELSE IF c = CloseOf(st.kind) THEN [st EXCEPT !.mode = "end"]
           ELSE JsonFailed(st)
      [] OTHER -> JsonFailed(st)

\* The state after s[lo..hi], read from state st (the left half of the
\* range, then the right half).
RECURSIVE JsonScan(_, _, _, _)
JsonScan(s, lo, hi, st) ==
    IF st.mode = "fail" \/ lo > hi THEN st
    ELSE IF lo = hi THEN JsonStep(st, s[lo])
    ELSE JsonScan(s, ((lo + hi) \div 2) + 1, hi,
                  JsonScan(s, lo, (lo + hi) \div 2, st))

\* json.loads: ok is FALSE where it raises json.JSONDecodeError.
JsonResult(st) ==
    [ok |-> st.mode = "end", val |-> [kind |-> st.kind, items |-> st.items]]

JsonLoads(s) == JsonResult(JsonScan(s, 1, Len(s), JsonStart))

(***************************************************************************)
(* The backing file of the mapping store (MAPPING_FILE): whether it        *)
(* exists, whether this process may read it, and its bytes.                *)
(***************************************************************************)
AbsentFile == [exists |-> FALSE, readable |-> TRUE, bytes |-> <<>>]

FileOf(chars) == [exists |-> TRUE, readable |-> TRUE, bytes |-> Utf8Encode(chars)]

\* Variant for C11: an open that keeps the file's content.
OpenedAsIs(f) == [exists |-> TRUE, readable |-> f.readable, bytes |-> f.bytes]

\* open(filepath, 'w'): the file is created or truncated.
Truncated(f) == [exists |-> TRUE, readable |-> f.readable, bytes |-> <<>>]

\* One write of `bytes` at offset 0 through a descriptor opened with 'w':
\* bytes another writer put beyond them since the truncation stay.
Overwritten(f, bytes) ==
    [f EXCEPT !.bytes = bytes \o SubSeq(f.bytes, Len(bytes) + 1, Len(f.bytes))]

(***************************************************************************)
(* load_json_file(filepath, default).  raised: an exception leaves the     *)
(* function (open's PermissionError, the decoder's UnicodeDecodeError);    *)
(* only json.JSONDecodeError is caught and answered with the default.      *)
(***************************************************************************)
\* The except clause: json.JSONDecodeError is answered with the default.
Parsed(parsed, default) ==
    [raised |-> FALSE, val |-> IF parsed.ok THEN parsed.val ELSE default]

\* json.load(f): f.read() decodes all the bytes, json.loads parses them.
Decoded(decoded, default) ==
    IF ~decoded.ok THEN [raised |-> TRUE, val |-> default]
    ELSE Parsed(JsonLoads(decoded.chars), default)

load_json_file(f, default) ==
    IF ~f.exists THEN [raised |-> FALSE, val |-> default]
    ELSE IF ~f.readable THEN [raised |-> TRUE, val |-> default]
    ELSE Decoded(Utf8Decode(f.bytes), default)

load_mappings(f) == load_json_file(f, EmptyDict)

\* The mapping the file's bytes are the JSON text of, if they are one.
Stored(decoded) ==
    IF decoded.ok /\ JsonLoads(decoded.chars).ok
       /\ JsonLoads(decoded.chars).val.kind = "dict"
    THEN [mapping |-> TRUE, val |-> JsonLoads(decoded.chars).val]
    ELSE [mapping |-> FALSE, val |-> EmptyDict]

StoredIn(f) == Stored(Utf8Decode(f.bytes))

Malformed(f) == f.exists /\ ~StoredIn(f).mapping

\* What save_json_file writes for `data`.
SavedBytes(data) == Utf8Encode(JsonDump(data))

\* Variant for C7: a save_json_file that logs the exception and returns.
SwallowedOutcome == "ok"

\* save_json_file's except branch logs and re-raises; the request handler
\* turns the exception into an error response.
SaveFailureOutcome == "error"

(***************************************************************************)
(* deidentify_text, from load_mappings() on: the spans (results) are the   *)
(* resolved ones.  A span is [start, end, entity_type, score].             *)
(***************************************************************************)
\* sorted(results, key=lambda x: x.start, reverse=True): stable.
RECURSIVE InsertByStartDesc(_, _)
InsertByStartDesc(sorted, x) ==
    IF sorted = <<>> THEN <<x>>
    ELSE IF Head(sorted).start >= x.start
         THEN <<Head(sorted)>> \o InsertByStartDesc(Tail(sorted), x)
         ELSE <<x>> \o sorted

\* Variant for C20: the spans are taken in the order given.
AsGiven(results) == results

RECURSIVE SortedByStartDesc(_)
SortedByStartDesc(results) ==
    IF results = <<>> THEN <<>>
    ELSE InsertByStartDesc(SortedByStartDesc(SubSeq(results, 1, Len(results) - 1)),
                           results[Len(results)])

\* Variant for C2: every call numbers its placeholders from 001.
CounterFromZero(items, entity_type) == 0

\* Variant for C3: the counter starts at the number of all the keys.
CounterOfAllKeys(items, entity_type) == Len(items)

\* len([k for k in mappings.keys() if k.startswith(f"{entity_type}_")])
InitialCounter(items, entity_type) ==
    Cardinality({i \in DOMAIN items : StartsWith(items[i][1], entity_type \o <<"_">>)})

\* The loop over sorted_results; st = [mappings, counters, dtext, placed],
\* placed listing the <<placeholder, original_value>> pairs as generated.
RECURSIVE DeidentifyLoop(_, _, _, _)
DeidentifyLoop(text, sorted, i, st) ==
    IF i > Len(sorted) THEN st
    ELSE LET result == sorted[i]
             entity_type == result.entity_type
             original_value == Slice(text, result.start, result.end)
             counter == (IF entity_type \in DOMAIN st.counters
                         THEN st.counters[entity_type]
                         ELSE InitialCounter(st.mappings, entity_type)) + 1
             placeholder == FormatPlaceholder(entity_type, counter)
         IN  DeidentifyLoop(text, sorted, i + 1,
                 [mappings |-> DictSet(st.mappings, placeholder, original_value),
                  counters |-> (entity_type :> counter) @@ st.counters,
                  dtext |-> Slice(st.dtext, 0, result.start) \o placeholder
                            \o Slice(st.dtext, result.end, Len(st.dtext)),
                  placed |-> Append(st.placed, <<placeholder, original_value>>)])

Deidentified(text, results, items) ==
    DeidentifyLoop(text, SortedByStartDesc(results), 1,
                   [mappings |-> items, counters |-> <<>>, dtext |-> text,
                    placed |-> <<>>])

(***************************************************************************)
(* reidentify_text.                                                        *)
(***************************************************************************)
\* sorted(mappings.items(), key=lambda x: len(x[0]), reverse=True): stable.
RECURSIVE InsertByKeyLenDesc(_, _)
InsertByKeyLenDesc(sorted, x) ==
    IF sorted = <<>> THEN <<x>>
    ELSE IF Len(Head(sorted)[1]) >= Len(x[1])
         THEN <<Head(sorted)>> \o InsertByKeyLenDesc(Tail(sorted), x)
         ELSE <<x>> \o sorted

\* Variant for C21: the entries are taken in the order stored.
AsStored(items) == items

RECURSIVE SortedByKeyLenDesc(_)
SortedByKeyLenDesc(items) ==
    IF items = <<>> THEN <<>>
    ELSE InsertByKeyLenDesc(SortedByKeyLenDesc(SubSeq(items, 1, Len(items) - 1)),
                            items[Len(items)])

RECURSIVE ReplaceEach(_, _, _)
ReplaceEach(text, sorted_mappings, i) ==
    IF i > Len(sorted_mappings) THEN text
    ELSE ReplaceEach(StrReplace(text, sorted_mappings[i][1], sorted_mappings[i][2]),
                     sorted_mappings, i + 1)

\* Variant for C17: nothing of the text is returned.
Blanked(text, items) == <<>>

Reidentified(text, items) == ReplaceEach(text, SortedByKeyLenDesc(items), 1)

(***************************************************************************)
(* anonymize_text's substitution is the anonymizer engine's: each span,    *)
(* from the last to the first, becomes "<ENTITY_TYPE>".                    *)
(***************************************************************************)
RECURSIVE AnonymizeLoop(_, _, _)
AnonymizeLoop(atext, sorted, i) ==
    IF i > Len(sorted) THEN atext
    ELSE AnonymizeLoop(Slice(atext, 0, sorted[i].start) \o <<"<">>
                       \o sorted[i].entity_type \o <<">">>
                       \o Slice(atext, sorted[i].end, Len(atext)),
                       sorted, i + 1)

Anonymized(text, results) == AnonymizeLoop(text, SortedByStartDesc(results), 1)

(***************************************************************************)
(* The span resolver's functions.  A span is RecognizerResult's            *)
(* entity_type, start, end and score; a score is in hundredths (0.85 is    *)
(* 85, 1.0 is 100).                                                        *)
(***************************************************************************)
T_PERSON == <<"P", "E", "R", "S", "O", "N">>

MkResult(entity_type, start, end, score) ==
    [start |-> start, end |-> end, entity_type |-> entity_type, score |-> score]

(***************************************************************************)
(* merge_adjacent_persons.                                                 *)
(***************************************************************************)
\* sorted(results, key=lambda x: x.start): stable.
RECURSIVE InsertByStart(_, _)
InsertByStart(sorted, x) ==
    IF sorted = <<>> THEN <<x>>
    ELSE IF Head(sorted).start <= x.start
         THEN <<Head(sorted)>> \o InsertByStart(Tail(sorted), x)
         ELSE <<x>> \o sorted

\* Variant for C24: the spans are merged in the order given.
InGivenOrder(results) == results

RECURSIVE SortedByStart(_)
SortedByStart(results) ==
    IF results = <<>> THEN <<>>
    ELSE InsertByStart(SortedByStart(SubSeq(results, 1, Len(results) - 1)),
                       results[Len(results)])

MergeGap == 3

\* Variant for C12: only PERSON spans that touch or overlap are merged.
AdjacentIfTouching(next_result, merged_end) ==
    next_result.entity_type = T_PERSON /\ next_result.start - merged_end <= 0

\* next_result.entity_type == "PERSON" and
\* next_result.start - merged_end <= 3
Adjacent(next_result, merged_end) ==
    next_result.entity_type = T_PERSON /\ next_result.start - merged_end <= MergeGap

\* Variant for C30: the look-ahead takes the next span only and stops.
LookAheadOnce(sorted_results, j, merged_end, skip_indices) ==
    IF j > Len(sorted_results) \/ ~Adjacent(sorted_results[j], merged_end)
    THEN [merged_end |-> merged_end, skip_indices |-> skip_indices]
    ELSE [merged_end |-> sorted_results[j].end,
          skip_indices |-> skip_indices \cup {j}]

\* The look-ahead loop from index j (1-based): [merged_end, skip_indices].
RECURSIVE LookAhead(_, _, _, _)
LookAhead(sorted_results, j, merged_end, skip_indices) ==
    IF j > Len(sorted_results) \/ ~Adjacent(sorted_results[j], merged_end)
    THEN [merged_end |-> merged_end, skip_indices |-> skip_indices]
    ELSE LookAhead(sorted_results, j + 1, sorted_results[j].end,
                   skip_indices \cup {j})

\* The body of the outer loop for a PERSON span at index i, given the
\* look-ahead's result.
MergedFrom(sorted_results, i, ahead, merged_results) ==
    [skip_indices |-> ahead.skip_indices,
     merged_results |->
         Append(merged_results,
                MkResult(T_PERSON, sorted_results[i].start, ahead.merged_end,
                         sorted_results[i].score))]

\* The outer loop from index i; st = [skip_indices, merged_results].
RECURSIVE MergeLoop(_, _, _)
MergeLoop(sorted_results, i, st) ==
    IF i > Len(sorted_results) THEN st.merged_results
    ELSE IF i \in st.skip_indices THEN MergeLoop(sorted_results, i + 1, st)
    ELSE IF sorted_results[i].entity_type = T_PERSON
         THEN MergeLoop(sorted_results, i + 1,
                  MergedFrom(sorted_results, i,
                      LookAhead(sorted_results, i + 1, sorted_results[i].end,
                                st.skip_indices),
                      st.merged_results))
    ELSE MergeLoop(sorted_results, i + 1,
             [st EXCEPT !.merged_results = Append(@, sorted_results[i])])

merge_adjacent_persons(text, results) ==
    IF results = <<>> THEN results
    ELSE MergeLoop(SortedByStart(results), 1,
                   [skip_indices |-> {}, merged_results |-> <<>>])

(***************************************************************************)
(* Regular expressions, as re matches them on a str.  Offsets count from   *)
(* 0, so the character at offset pos is text[pos + 1].                     *)
(***************************************************************************)
UpperLetters ==
    <<"A", "B", "C", "D", "E", "F", "G", "H", "I", "J", "K", "L", "M",
      "N", "O", "P", "Q", "R", "S", "T", "U", "V", "W", "X", "Y", "Z">>

LowerLetters ==
    <<"a", "b", "c", "d", "e", "f", "g", "h", "i", "j", "k", "l", "m",
      "n", "o", "p", "q", "r", "s", "t", "u", "v", "w", "x", "y", "z">>

UpperChars == {UpperLetters[i] : i \in DOMAIN UpperLetters}

LowerChars == {LowerLetters[i] : i \in DOMAIN LowerLetters}

\* \w
WordChars ==
    UpperChars \cup LowerChars \cup {DigitChars[i] : i \in DOMAIN DigitChars}
        \cup {"_", U_E9}

\* \s
WhitespaceChars == {SP, NL, "\t", "\r"}

IsWordAt(text, pos) == pos \in 0..(Len(text) - 1) /\ text[pos + 1] \in WordChars

\* \b
WordBoundary(text, pos) == IsWordAt(text, pos - 1) # IsWordAt(text, pos)

\* class+ or class*, greedy, from pos: the offset where the run ends.
RECURSIVE Greedy(_, _, _)
Greedy(text, pos, class) ==
    IF pos < Len(text) /\ text[pos + 1] \in class
    THEN Greedy(text, pos + 1, class)
    ELSE pos

NoMatch == [found |-> FALSE, start |-> 0, group_end |-> 0, end |-> 0]

\* \b([A-Z][a-z]+),\s+ matched at pos.  A shorter [a-z]+ is followed by a
\* lower-case letter, not by the comma, so only the longest run can match.
LastnameAtGroup(text, pos, group_end, match_end) ==
    IF /\ WordBoundary(text, pos)
       /\ pos < Len(text)
       /\ text[pos + 1] \in UpperChars
       /\ group_end > pos + 1
       /\ group_end < Len(text)
       /\ text[group_end + 1] = ","
       /\ match_end > group_end + 1
    THEN [found |-> TRUE, start |-> pos, group_end |-> group_end, end |-> match_end]
    ELSE NoMatch

LastnameAt(text, pos) ==
    LastnameAtGroup(text, pos, Greedy(text, pos + 1, LowerChars),
                    Greedy(text, Greedy(text, pos + 1, LowerChars) + 1,
                           WhitespaceChars))

\* re.finditer(pattern, text): the matches left to right, each search
\* starting where the last match ended.
RECURSIVE FindLastnames(_, _)
FindLastnames(text, pos) ==
    IF pos > Len(text) THEN <<>>
    ELSE IF LastnameAt(text, pos).found
         THEN <<LastnameAt(text, pos)>> \o FindLastnames(text, LastnameAt(text, pos).end)
         ELSE FindLastnames(text, pos + 1)

(***************************************************************************)
(* post_process_lastname_firstname.  person_entities is a dict keyed by    *)
(* (start, end); both loops over it only ask whether some key passes a     *)
(* test, so its order and its repeated keys do not show.                   *)
(***************************************************************************)
IsPerson(r) == r.entity_type = T_PERSON

PersonEntities(results) == SelectSeq(results, IsPerson)

FirstnameWindow == 2

\* Variant for C13: any PERSON span after the comma counts as the firstname.
FirstnameAnywhereAfter(person_entities, comma_position) ==
    \E i \in DOMAIN person_entities :
        person_entities[i].start >= comma_position

FoundFirstname(person_entities, comma_position) ==
    \E i \in DOMAIN person_entities :
        /\ person_entities[i].start >= comma_position
        /\ person_entities[i].start <= comma_position + FirstnameWindow

LastnameOverlap(person_entities, potential_lastname_start, potential_lastname_end) ==
    \E i \in DOMAIN person_entities :
        \/ /\ person_entities[i].start <= potential_lastname_start
           /\ potential_lastname_start < person_entities[i].end
        \/ /\ person_entities[i].start < potential_lastname_end
           /\ potential_lastname_end <= person_entities[i].end

RECURSIVE LastnameLoop(_, _, _)
LastnameLoop(matches, n, person_entities) ==
    IF n > Len(matches) THEN <<>>
    ELSE (IF /\ FoundFirstname(person_entities, matches[n].end)
             /\ ~LastnameOverlap(person_entities, matches[n].start,
                                 matches[n].group_end)
          THEN <<MkResult(T_PERSON, matches[n].start, matches[n].group_end, 85)>>
          ELSE <<>>)
         \o LastnameLoop(matches, n + 1, person_entities)

post_process_lastname_firstname(text, results) ==
    results \o LastnameLoop(FindLastnames(text, 0), 1, PersonEntities(results))

(***************************************************************************)
(* add_custom_names, given the list that load_custom_names() returned.     *)
(* The pattern is \b, the name taken literally (re.escape), \b, matched    *)
(* with re.IGNORECASE.                                                     *)
(***************************************************************************)
LowerOf(c) ==
    IF c \in UpperChars
    THEN LowerLetters[CHOOSE i \in DOMAIN UpperLetters : UpperLetters[i] = c]
    ELSE c

SameIgnoringCase(a, b) ==
    /\ Len(a) = Len(b)
    /\ \A k \in DOMAIN a : LowerOf(a[k]) = LowerOf(b[k])

NameAt(text, pos, name) ==
    /\ WordBoundary(text, pos)
    /\ pos + Len(name) <= Len(text)
    /\ SameIgnoringCase(SubSeq(text, pos + 1, pos + Len(name)), name)
    /\ WordBoundary(text, pos + Len(name))

\* re.finditer: the next search starts where the match ended, one character
\* further after an empty match.
RECURSIVE FindName(_, _, _)
FindName(text, pos, name) ==
    IF pos > Len(text) THEN <<>>
    ELSE IF NameAt(text, pos, name)
         THEN <<[start |-> pos, end |-> pos + Len(name)]>>
              \o FindName(text, IF name = <<>> THEN pos + 1 ELSE pos + Len(name), name)
         ELSE FindName(text, pos + 1, name)

Covered(results, start, end) ==
    \E i \in DOMAIN results :
        \/ results[i].start <= start /\ start < results[i].end
        \/ results[i].start < end /\ end <= results[i].end

RECURSIVE NameLoop(_, _, _)
NameLoop(matches, n, results) ==
    IF n > Len(matches) THEN <<>>
    ELSE (IF Covered(results, matches[n].start, matches[n].end)
          THEN <<>>
          ELSE <<MkResult(T_PERSON, matches[n].start, matches[n].end, 100)>>)
         \o NameLoop(matches, n + 1, results)

RECURSIVE NamesLoop(_, _, _, _)
NamesLoop(custom_names, n, text, results) ==
    IF n > Len(custom_names) THEN <<>>
    ELSE NameLoop(FindName(text, 0, custom_names[n]), 1, results)
         \o NamesLoop(custom_names, n + 1, text, results)

add_custom_names(text, results, custom_names) ==
    IF custom_names = <<>> THEN results
    ELSE results \o NamesLoop(custom_names, 1, text, results)

(***************************************************************************)
(* filter_ignore_list, given the list that load_ignore_list() returned,    *)
(* and filter_by_entity_types.  enabled_entities is None (none = TRUE) or  *)
(* a list of entity types.                                                 *)
(***************************************************************************)
\* Variant for C16: an entry is compared with the covered text in any case.
IgnoredInAnyCase(entity_text, ignore_list) ==
    \E k \in DOMAIN ignore_list : SameIgnoringCase(ignore_list[k], entity_text)

\* entity_text in ignore_list
Ignored(entity_text, ignore_list) ==
    \E k \in DOMAIN ignore_list : ignore_list[k] = entity_text

RECURSIVE IgnoreLoop(_, _, _, _)
IgnoreLoop(text, results, n, ignore_list) ==
    IF n > Len(results) THEN <<>>
    ELSE (IF Ignored(Slice(text, results[n].start, results[n].end), ignore_list)
          THEN <<>>
          ELSE <<results[n]>>)
         \o IgnoreLoop(text, results, n + 1, ignore_list)

filter_ignore_list(text, results, ignore_list) ==
    IF ignore_list = <<>> THEN results
    ELSE IgnoreLoop(text, results, 1, ignore_list)

EntitiesGiven(items) == [none |-> FALSE, items |-> items]
NoEntities == [none |-> TRUE, items |-> <<>>]

\* Variant for C15: only None means that every type is enabled.
NotGiven(enabled_entities) == enabled_entities.none

\* not enabled_entities
NoneEnabled(enabled_entities) ==
    enabled_entities.none \/ enabled_entities.items = <<>>

RECURSIVE EnabledLoop(_, _, _)
EnabledLoop(results, n, items) ==
    IF n > Len(results) THEN <<>>
    ELSE (IF \E k \in DOMAIN items : items[k] = results[n].entity_type
          THEN <<results[n]>>
          ELSE <<>>)
         \o EnabledLoop(results, n + 1, items)

filter_by_entity_types(results, enabled_entities) ==
    IF NoneEnabled(enabled_entities) THEN results
    ELSE EnabledLoop(results, 1, enabled_entities.items)

(***************************************************************************)
(* The resolver: what deidentify_text and anonymize_text do to the spans   *)
(* the analyzer returned, before they tokenize.  The ignore list and the   *)
(* custom names are what load_ignore_list() and load_custom_names() read.  *)
(***************************************************************************)
resolve(text, results, enabled_entities, ignore_list, custom_names) ==
    merge_adjacent_persons(text,
        post_process_lastname_firstname(text,
            add_custom_names(text,
                filter_ignore_list(text,
                    filter_by_entity_types(results, enabled_entities),
                    ignore_list),
                custom_names)))

(***************************************************************************)
(* Bounds and inputs.  An input of Deidentify or Anonymize is a text with  *)
(* its resolved spans, in ascending start order as the adjacency merge     *)
(* returns them: the text is a run of at most MaxSegs segments, each a     *)
(* word that is plain text (entity_type <<>>) or one entity.               *)
(***************************************************************************)
MaxSegs == 3
MaxConcSegs == 1
MaxStore == 3
MaxOps == 3

Procs == {"h1", "h2"}
MainProc == "h1"

T_P == <<"P">>
T_P_E == <<"P", "_", "E">>
EntityTypes == {T_P, T_P_E}

W_a == <<"a">>
W_P_001 == <<"P", "_", "0", "0", "1">>
Words == {W_a, W_P_001}

Segments == [entity_type : EntityTypes \cup {<<>>}, word : Words]

SegmentRuns(n) == UNION {[1..k -> Segments] : k \in 0..n}

RECURSIVE SpansOf(_, _, _)
SpansOf(segs, i, offset) ==
    IF i > Len(segs) THEN <<>>
    ELSE (IF segs[i].entity_type = <<>> THEN <<>>
          ELSE <<[start |-> offset, end |-> offset + Len(segs[i].word),
                  entity_type |-> segs[i].entity_type, score |-> 85]>>)
         \o SpansOf(segs, i + 1, offset + Len(segs[i].word))

InputOf(segs) ==
    [text |-> Concat([i \in DOMAIN segs |-> segs[i].word]),
     results |-> SpansOf(segs, 1, 0)]

Inputs(n) == {InputOf(segs) : segs \in SegmentRuns(n)}

DeidInputs == Inputs(MaxSegs)

\* The inputs of the concurrent handlers.
ConcInputs == Inputs(MaxConcSegs)

\* Texts given to Reidentify that are not a Deidentify's output.
ReidTexts == {<<>>} \cup {FormatPlaceholder(t, 1) : t \in EntityTypes}

(***************************************************************************)
(* State.  file: the mapping file.  proc[p]: request handler p, its place  *)
(* (pc: idle, open = about to open the file for writing, write = about to  *)
(* write and close it, done = returned), the operation it runs and that    *)
(* operation's locals.  The rest is history kept for the properties:       *)
(* committed (the data of the last completed save) and generated (the     *)
(* <<placeholder, original>> pairs Deidentify calls generated since the    *)
(* last Clear); in proc[p], origin is the text whose tokenized form a      *)
(* Reidentify was given (a client sending a Deidentify's output back),     *)
(* legit whether the operation's load returned what a save had stored,     *)
(* malformed whether a Deidentify found the file holding no mapping,       *)
(* failed whether its save failed, before the mapping the file held when   *)
(* a Clear began.  ops counts the operations started, where a              *)
(* specification bounds them; in proc[p], started is the number of a       *)
(* Deidentify among them and finished their count when the save of p's     *)
(* operation completed, so that an operation began after a save completed  *)
(* exactly when its started exceeds the save's finished.                   *)
(***************************************************************************)
VARIABLES file, proc, committed, generated, ops, call

vars == <<file, proc, committed, generated, ops, call>>

\* call: the call of a span-resolver function under examination, if any.
NoCall ==
    [fn |-> "none", text |-> <<>>, results |-> <<>>, list |-> <<>>,
     returned |-> <<>>, done |-> FALSE]

IdleProc ==
    [pc |-> "idle", op |-> "none", text |-> <<>>, results |-> <<>>,
     loaded |-> EmptyDict, mappings |-> EmptyDict, out |-> <<>>, count |-> 0,
     outcome |-> "none", placed |-> <<>>, legit |-> TRUE, failed |-> FALSE,
     malformed |-> FALSE, origin |-> [valid |-> FALSE, text |-> <<>>],
     before |-> EmptyDict, started |-> 0, finished |-> 0]

Ready(p) == proc[p].pc = "idle"

\* p has returned a Deidentify's output, which the client may send back.
Tokenized(p) ==
    /\ proc[p].pc = "done"
    /\ proc[p].op = "deidentify"
    /\ proc[p].outcome = "ok"

Saving(p) == proc[p].pc \in {"open", "write"}

\* What a load may return while saves are under way: the data of the last
\* completed save or the data of a save in progress.
LegitLoads(p) ==
    {committed} \cup {proc[q].mappings : q \in {r \in Procs \ {p} : Saving(r)}}

Raised(p, op, text, results) ==
    [IdleProc EXCEPT !.pc = "done", !.op = op, !.text = text,
                     !.results = results, !.outcome = "error"]

Init ==
    /\ file = AbsentFile
    /\ proc = [p \in Procs |-> IdleProc]
    /\ committed = EmptyDict
    /\ generated = {}
    /\ ops = 0
    /\ call = NoCall

(***************************************************************************)
(* deidentify_text up to save_mappings: load the mapping, tokenize.        *)
(***************************************************************************)
\* The locals after the loop: mappings is the dict loaded (st: the loop's
\* result), or a list that no span made the loop touch.
Tokenizing(p, input, val, st) ==
    [IdleProc EXCEPT
       !.pc = "open", !.op = "deidentify", !.text = input.text,
       !.results = input.results, !.loaded = val,
       !.mappings = IF val.kind = "dict" THEN MkDict(st.mappings) ELSE val,
       !.out = st.dtext, !.count = Len(input.results), !.placed = st.placed,
       !.legit = val \in LegitLoads(p), !.started = ops + 1]

\* r: what load_mappings() did.  mappings.keys() raises AttributeError
\* when the file held a list and there is a span to tokenize.
DeidentifyLoaded(p, input, r) ==
    /\ Len(r.val.items) + Len(input.results) <= MaxStore
    /\ proc' = [proc EXCEPT ![p] =
           IF r.raised \/ (r.val.kind # "dict" /\ input.results # <<>>)
           THEN [Raised(p, "deidentify", input.text, input.results)
                    EXCEPT !.malformed = Malformed(file)]
           ELSE [Tokenizing(p, input, r.val,
                    Deidentified(input.text, input.results,
                        IF r.val.kind = "dict" THEN r.val.items ELSE <<>>))
                    EXCEPT !.malformed = Malformed(file)]]

Deidentify(p, input) ==
    /\ Ready(p)
    /\ DeidentifyLoaded(p, input, load_mappings(file))
    /\ UNCHANGED <<file, committed>>

(***************************************************************************)
(* reidentify_text.                                                        *)
(***************************************************************************)
\* r: what load_mappings() did.  mappings.items() raises AttributeError
\* when the file held a list.
ReidentifyLoaded(p, text, r) ==
    proc' = [proc EXCEPT ![p] =
        IF r.raised \/ r.val.kind # "dict"
        THEN Raised(p, "reidentify", text, <<>>)
        ELSE [IdleProc EXCEPT
                !.pc = "done", !.op = "reidentify", !.text = text,
                !.origin = [valid |-> Tokenized(p), text |-> proc[p].text],
                !.loaded = r.val, !.mappings = r.val,
                !.out = Reidentified(text, r.val.items), !.count = 0,
                !.outcome = "ok", !.legit = r.val \in LegitLoads(p)]]

Reidentify(p, text) ==
    /\ Ready(p) \/ (Tokenized(p) /\ text = proc[p].out)
    /\ ReidentifyLoaded(p, text, load_mappings(file))
    /\ UNCHANGED <<file, committed>>

(***************************************************************************)
(* anonymize_text: no use of the mapping store.                            *)
(***************************************************************************)
\* Variant for C19: a call that found nothing still reports one entity.
AtLeastOne(results) == IF results = <<>> THEN 1 ELSE Len(results)

\* len(results)
EntitiesFound(results) == Len(results)

Anonymize(p, input) ==
    /\ Ready(p)
    /\ proc' = [proc EXCEPT ![p] =
           [IdleProc EXCEPT
              !.pc = "done", !.op = "anonymize", !.text = input.text,
              !.results = input.results,
              !.out = Anonymized(input.text, input.results),
              !.count = EntitiesFound(input.results), !.outcome = "ok"]]
    /\ UNCHANGED <<file, committed>>

(***************************************************************************)
(* clear_mappings: save_mappings({}).  save_mappings(m) and                *)
(* load_mappings(), called on their own.                                   *)
(***************************************************************************)
Clear(p) ==
    /\ Ready(p)
    /\ proc' = [proc EXCEPT ![p] =
           [IdleProc EXCEPT !.pc = "open", !.op = "clear", !.mappings = EmptyDict,
                            !.before = StoredIn(file).val]]
    /\ UNCHANGED <<file, committed>>

SaveMappings(p, m) ==
    /\ Ready(p)
    /\ proc' = [proc EXCEPT ![p] =
           [IdleProc EXCEPT !.pc = "open", !.op = "save", !.mappings = m]]
    /\ UNCHANGED <<file, committed>>

MappingsLoaded(p, r) ==
    proc' = [proc EXCEPT ![p] =
        IF r.raised THEN Raised(p, "load", <<>>, <<>>)
        ELSE [IdleProc EXCEPT
                !.pc = "done", !.op = "load", !.loaded = r.val,
                !.outcome = "ok", !.legit = r.val \in LegitLoads(p)]]

LoadMappings(p) ==
    /\ Ready(p)
    /\ MappingsLoaded(p, load_mappings(file))
    /\ UNCHANGED <<file, committed>>

(***************************************************************************)
(* save_json_file, in its two accesses to the file: open(filepath, 'w')    *)
(* truncates it, json.dump and the close write the data.  Either may fail  *)
(* (the Fails actions): the exception is logged and raised again.          *)
(***************************************************************************)
SaveOpen(p) ==
    /\ proc[p].pc = "open"
    /\ file' = Truncated(file)
    /\ proc' = [proc EXCEPT ![p].pc = "write"]
    /\ UNCHANGED committed

SaveWrite(p) ==
    /\ proc[p].pc = "write"
    /\ file' = Overwritten(file, SavedBytes(proc[p].mappings))
    /\ proc' = [proc EXCEPT ![p].pc = "done", ![p].outcome = "ok",
                            ![p].finished = ops]
    /\ committed' = proc[p].mappings

SaveOpenFails(p) ==
    /\ proc[p].pc = "open"
    /\ proc' = [proc EXCEPT ![p].pc = "done", ![p].failed = TRUE,
                            ![p].outcome = SaveFailureOutcome]
    /\ UNCHANGED <<file, committed>>

SaveWriteFails(p) ==
    /\ proc[p].pc = "write"
    /\ proc' = [proc EXCEPT ![p].pc = "done", ![p].failed = TRUE,
                            ![p].outcome = SaveFailureOutcome]
    /\ UNCHANGED <<file, committed>>

\* The handler has sent its response and takes the next request.
Return(p) ==
    /\ proc[p].pc = "done"
    /\ proc' = [proc EXCEPT ![p] = IdleProc]
    /\ UNCHANGED <<file, committed>>

(***************************************************************************)
(* Spec: the handlers run concurrently, every access to the file a step,   *)
(* for at most MaxOps operations.                                          *)
(***************************************************************************)
Started(A) ==
    ops < MaxOps /\ ops' = ops + 1 /\ generated' = generated /\ call' = call /\ A

Continued(A) == ops' = ops /\ generated' = generated /\ call' = call /\ A

Next ==
    \E p \in Procs :
        \/ Started(\E input \in ConcInputs : Deidentify(p, input))
        \/ Started(\E t \in ReidTexts \cup {proc[p].out} : Reidentify(p, t))
        \/ Started(Clear(p))
        \/ Continued(SaveOpen(p))
        \/ Continued(SaveWrite(p))
        \/ Continued(Return(p))

Spec == Init /\ [][Next]_vars

(***************************************************************************)
(* SeqSpec: sequential use, one operation after another.  The history     *)
(* generated records what the completed operations generated.             *)
(***************************************************************************)
Completes(p, op) ==
    /\ proc[p].op = op
    /\ proc[p].pc = "write"
    /\ proc'[p].pc = "done"

Recorded(A) ==
    /\ A
    /\ ops' = ops
    /\ call' = call
    /\ generated' =
          IF Completes(MainProc, "clear") THEN {}
          ELSE IF Completes(MainProc, "deidentify")
               THEN generated \cup {<<proc[MainProc].placed[i][1],
                                      proc[MainProc].placed[i][2]>> :
                                        i \in DOMAIN proc[MainProc].placed}
               ELSE generated

SeqNext ==
    \/ Recorded(\E input \in DeidInputs : Deidentify(MainProc, input))
    \/ Recorded(\E t \in ReidTexts \cup {proc[MainProc].out} :
                    Reidentify(MainProc, t))
    \/ Recorded(\E input \in DeidInputs : Anonymize(MainProc, input))
    \/ Recorded(Clear(MainProc))
    \/ Recorded(SaveOpen(MainProc))
    \/ Recorded(SaveWrite(MainProc))
    \/ Recorded(Return(MainProc))

SeqSpec == Init /\ [][SeqNext]_vars

(***************************************************************************)
(* FaultSpec: sequential use of an unreliable store.  The file starts as   *)
(* an earlier run or the environment may have left it: absent, a saved     *)
(* mapping, one the process may not read, bytes that are no UTF-8 text, a  *)
(* JSON text cut short, a JSON array; and a save may fail.                 *)
(***************************************************************************)
FaultFiles ==
    {AbsentFile,
     FileOf(JsonDump(MkDict(<< <<W_P_001, W_a>> >>))),
     [FileOf(JsonDump(MkDict(<< <<W_P_001, W_a>> >>))) EXCEPT !.readable = FALSE],
     [exists |-> TRUE, readable |-> TRUE, bytes |-> <<"{", B_C3>>],
     FileOf(<<"{", NL, SP, SP, QUOTE, "P">>),
     FileOf(JsonDump([kind |-> "list", items |-> <<W_a>>]))}

FaultInit ==
    /\ file \in FaultFiles
    /\ proc = [p \in Procs |-> IdleProc]
    /\ committed = StoredIn(file).val
    /\ generated = {}
    /\ ops = 0
    /\ call = NoCall

FaultNext ==
    \/ Continued(\E input \in DeidInputs : Deidentify(MainProc, input))
    \/ Continued(\E t \in ReidTexts \cup {proc[MainProc].out} :
                     Reidentify(MainProc, t))
    \/ Continued(Clear(MainProc))
    \/ Continued(LoadMappings(MainProc))
    \/ Continued(SaveOpen(MainProc))
    \/ Continued(SaveWrite(MainProc))
    \/ Continued(SaveOpenFails(MainProc))
    \/ Continued(SaveWriteFails(MainProc))
    \/ Continued(Return(MainProc))

FaultSpec == FaultInit /\ [][FaultNext]_vars

(***************************************************************************)
(* StoreSpec: the store's own operations, save_mappings(m) for the         *)
(* mappings m of at most MaxSaveItems entries, clear_mappings() and        *)
(* load_mappings().                                                        *)
(***************************************************************************)
MaxSaveItems == 2

SaveKeys == {W_P_001, <<U_E9, QUOTE>>}

SaveValues == {<<>>, W_a, <<U_E9>>, <<QUOTE>>, <<BSLASH>>, <<"a", NL>>}

SaveItems ==
    {items \in UNION {[1..k -> SaveKeys \X SaveValues] : k \in 0..MaxSaveItems} :
        \A i, j \in DOMAIN items : items[i][1] = items[j][1] => i = j}

StoreNext ==
    \/ Continued(\E items \in SaveItems : SaveMappings(MainProc, MkDict(items)))
    \/ Continued(Clear(MainProc))
    \/ Continued(LoadMappings(MainProc))
    \/ Continued(SaveOpen(MainProc))
    \/ Continued(SaveWrite(MainProc))
    \/ Continued(Return(MainProc))

StoreSpec == Init /\ [][StoreNext]_vars

(***************************************************************************)
(* NestedSpec: the store is written with save_mappings, as the test of     *)
(* placeholders inside values writes it, and then used by Reidentify.  The *)
(* mappings saved hold at most MaxNested of the entries                    *)
(* PERSON_001 -> "John PERSON_002", PERSON_002 -> "Smith" and              *)
(* PERSON_003 -> "", and of the entries PERSON_100 -> "John" and           *)
(* PERSON_1000 -> "Smith", one key beginning the other, in any order.      *)
(***************************************************************************)
MaxNested == 2

PERSON_001 == FormatPlaceholder(T_PERSON, 1)
PERSON_002 == FormatPlaceholder(T_PERSON, 2)
PERSON_003 == FormatPlaceholder(T_PERSON, 3)

W_John == <<"J", "o", "h", "n">>
W_Smith == <<"S", "m", "i", "t", "h">>

PERSON_100 == FormatPlaceholder(T_PERSON, 100)
PERSON_1000 == FormatPlaceholder(T_PERSON, 1000)

NestedEntries ==
    {<<PERSON_001, W_John \o <<SP>> \o PERSON_002>>,
     <<PERSON_002, W_Smith>>,
     <<PERSON_003, <<>> >>,
     <<PERSON_100, W_John>>,
     <<PERSON_1000, W_Smith>>}

NestedItems ==
    {items \in UNION {[1..k -> NestedEntries] : k \in 0..MaxNested} :
        \A i, j \in DOMAIN items : items[i][1] = items[j][1] => i = j}

NestedTexts ==
    {PERSON_001, PERSON_002, PERSON_001 \o <<SP>> \o PERSON_002,
     PERSON_100, PERSON_1000, PERSON_1000 \o <<SP>> \o PERSON_100,
     PERSON_100 \o PERSON_1000 \o <<"0">>}

NestedNext ==
    \/ Continued(\E items \in NestedItems : SaveMappings(MainProc, MkDict(items)))
    \/ Continued(\E t \in NestedTexts : Reidentify(MainProc, t))
    \/ Continued(SaveOpen(MainProc))
    \/ Continued(SaveWrite(MainProc))
    \/ Continued(Return(MainProc))

NestedSpec == Init /\ [][NestedNext]_vars

(***************************************************************************)
(* ResolveSpec: one call of a span-resolver function, on an input drawn    *)
(* from the function's calls.  The spans given to the adjacency merge: at  *)
(* most MaxMergeSpans spans, in any order, starting at 0..MaxMergeStart,   *)
(* of the lengths MergeLens, PERSON or not, with scores that tell them     *)
(* apart; and the two spans of "Smith, John".                              *)
(***************************************************************************)
MaxMergeSpans == 3
MaxMergeStart == 6
MergeLens == {1, 4}

T_LOCATION == <<"L", "O", "C", "A", "T", "I", "O", "N">>

MergeShapes ==
    [start : 0..MaxMergeStart, len : MergeLens, entity_type : {T_PERSON, T_LOCATION}]

RECURSIVE ResultsFrom(_, _)
ResultsFrom(shapes, i) ==
    IF i > Len(shapes) THEN <<>>
    ELSE <<MkResult(shapes[i].entity_type, shapes[i].start,
                    shapes[i].start + shapes[i].len, 80 + i)>>
         \o ResultsFrom(shapes, i + 1)

ResultsOf(shapes) == ResultsFrom(shapes, 1)

SmithJohn == <<MkResult(T_PERSON, 0, 5, 85), MkResult(T_PERSON, 7, 11, 85)>>

MergeInputs ==
    {ResultsOf(shapes) :
        shapes \in UNION {[1..k -> MergeShapes] : k \in 0..MaxMergeSpans}}
    \cup {SmithJohn}

CallOf(fn, text, results, list) ==
    [fn |-> fn, text |-> text, results |-> results, list |-> list,
     returned |-> <<>>, done |-> FALSE]

MergeCalls == {CallOf("merge_adjacent_persons", <<>>, r, <<>>) : r \in MergeInputs}

(***************************************************************************)
(* The calls that take a text: a text, and at most MaxCallSpans spans      *)
(* inside it, in any order, overlapping or not, each CallLen long.         *)
(***************************************************************************)
MaxCallSpans == 2
CallLen == 2

Longest(texts) == CHOOSE n \in {Len(t) : t \in texts} : \A t \in texts : Len(t) <= n

CallShapes(texts) ==
    [start : 0..(Longest(texts) - CallLen), len : {CallLen},
     entity_type : {T_PERSON, T_LOCATION}]

Inside(text, shapes) ==
    \A i \in DOMAIN shapes : shapes[i].start + shapes[i].len <= Len(text)

TextInputs(texts) ==
    {in \in texts \X UNION {[1..k -> CallShapes(texts)] : k \in 0..MaxCallSpans} :
        Inside(in[1], in[2])}

\* Texts around "Jo, Jo": what stands before the capitalized word, the word,
\* the comma and the whitespace, and what follows.
LastnameTexts ==
    {before \o word \o comma \o after :
        before \in {<<>>, <<"_">>},
        word \in {<<"J", "o">>, <<"J">>, <<"j", "o">>, <<"J", "O">>},
        comma \in {<<",">>, <<",", SP>>, <<",", SP, SP>>, <<",", NL, SP, SP>>, <<SP>>},
        after \in {<<>>, <<"J", "o">>, <<"-", "-", "J", "o">>,
                   <<"-", "-", "-", "J", "o">>, <<"S", "o", ",", SP, "J", "o">>}}

LastnameCalls ==
    {CallOf("post_process_lastname_firstname", in[1], ResultsOf(in[2]), <<>>) :
        in \in TextInputs(LastnameTexts)}

\* Texts of one to three "Jo" or "jo", a space or an underscore between
\* them, and the lists of at most MaxNames custom names.
MaxNames == 2

W_Jo == <<"J", "o">>
W_jo == <<"j", "o">>
W_Jo_Jo == <<"J", "o", SP, "J", "o">>

NameTexts ==
    {a \o b \o c :
        a \in {W_Jo, W_jo},
        b \in {<<>>} \cup {sep \o word : sep \in {<<SP>>, <<"_">>}, word \in {W_Jo, W_jo}},
        c \in {<<>>} \cup {sep \o word : sep \in {<<SP>>, <<"_">>}, word \in {W_Jo, W_jo}}}

NameLists == UNION {[1..k -> {W_Jo, W_Jo_Jo}] : k \in 0..MaxNames}

CustomNameCalls ==
    {CallOf("add_custom_names", in[1][1], ResultsOf(in[1][2]), in[2]) :
        in \in TextInputs(NameTexts) \X NameLists}

\* The ignore lists of at most MaxIgnored entries: a text that spans cover,
\* the beginning of it, and a longer one.
MaxIgnored == 2

IgnoreTexts == {text \in NameTexts : Len(text) <= Len(W_Jo_Jo)}

IgnoreLists ==
    UNION {[1..k -> {W_Jo, <<"J">>, <<"J", "o", SP>>}] : k \in 0..MaxIgnored}

IgnoreCalls ==
    {CallOf("filter_ignore_list", in[1][1], ResultsOf(in[1][2]), in[2]) :
        in \in TextInputs(IgnoreTexts) \X IgnoreLists}

\* The spans given to the type filter, of three types, and the enabled
\* types: None, or a list of at most MaxEnabled types.
MaxFilterSpans == 3
MaxEnabled == 2

T_EMAIL_ADDRESS == <<"E", "M", "A", "I", "L", "_", "A", "D", "D", "R", "E", "S", "S">>

FilterTypes == {T_PERSON, T_LOCATION, T_EMAIL_ADDRESS}

FilterShapes == [start : 0..1, len : {1}, entity_type : FilterTypes]

EnabledEntities ==
    {NoEntities}
    \cup {EntitiesGiven(items) :
              items \in UNION {[1..k -> FilterTypes] : k \in 0..MaxEnabled}}

FilterCalls ==
    {CallOf("filter_by_entity_types", <<>>, ResultsOf(in[1]), in[2]) :
        in \in (UNION {[1..k -> FilterShapes] : k \in 0..MaxFilterSpans})
                    \X EnabledEntities}

\* The inputs of the whole resolver: a one-word text whose boundaries are
\* more than three characters apart, "Jo, Jo", "Jo Jo" and "Jo"; raw spans
\* inside the text; every type enabled, or one; an ignore list and custom
\* names, empty or of one entry, the empty name among them.
W_Jo_comma_Jo == <<"J", "o", ",", SP, "J", "o">>

ResolveTexts == {W_Smith, W_Jo_comma_Jo, W_Jo_Jo, W_Jo}

ResolveSettings ==
    [enabled_entities : {NoEntities, EntitiesGiven(<<>>),
                         EntitiesGiven(<<T_PERSON>>), EntitiesGiven(<<T_LOCATION>>)},
     ignore_list : {<<>>, <<W_Jo>>},
     custom_names : {<<>>, <<W_Jo>>, <<W_Jo_Jo>>, << <<>> >>}]

ResolveCalls ==
    {CallOf("resolve", in[1][1], ResultsOf(in[1][2]), in[2]) :
        in \in TextInputs(ResolveTexts) \X ResolveSettings}

ResolveInit ==
    /\ file = AbsentFile
    /\ proc = [p \in Procs |-> IdleProc]
    /\ committed = EmptyDict
    /\ generated = {}
    /\ ops = 0
    /\ \/ call \in MergeCalls
       \/ call \in LastnameCalls
       \/ call \in CustomNameCalls
       \/ call \in IgnoreCalls
       \/ call \in FilterCalls
       \/ call \in ResolveCalls

Calling(fn) == call.fn = fn /\ ~call.done

Returning(results) ==
    /\ call' = [call EXCEPT !.returned = results, !.done = TRUE]
    /\ UNCHANGED <<file, proc, committed, generated, ops>>

MergeAdjacentPersons ==
    /\ Calling("merge_adjacent_persons")
    /\ Returning(merge_adjacent_persons(call.text, call.results))

PostProcessLastnameFirstname ==
    /\ Calling("post_process_lastname_firstname")
    /\ Returning(post_process_lastname_firstname(call.text, call.results))

AddCustomNames ==
    /\ Calling("add_custom_names")
    /\ Returning(add_custom_names(call.text, call.results, call.list))

FilterIgnoreList ==
    /\ Calling("filter_ignore_list")
    /\ Returning(filter_ignore_list(call.text, call.results, call.list))

FilterByEntityTypes ==
    /\ Calling("filter_by_entity_types")
    /\ Returning(filter_by_entity_types(call.results, call.list))

Resolve ==
    /\ Calling("resolve")
    /\ Returning(resolve(call.text, call.results, call.list.enabled_entities,
                         call.list.ignore_list, call.list.custom_names))

ResolveNext ==
    \/ MergeAdjacentPersons
    \/ FilterByEntityTypes
    \/ FilterIgnoreList
    \/ AddCustomNames
    \/ PostProcessLastnameFirstname
    \/ Resolve

ResolveSpec == ResolveInit /\ [][ResolveNext]_vars

(***************************************************************************)
(* Properties.  They name placeholders by their own rendering and their    *)
(* own counts, so that they test the program's.                            *)
(***************************************************************************)
ThreeDigits(n) ==
    <<DigitChars[((n \div 100) % 10) + 1], DigitChars[((n \div 10) % 10) + 1],
      DigitChars[(n % 10) + 1]>>

PlaceholderOf(entity_type, n) == entity_type \o <<"_">> \o ThreeDigits(n)

TagCount(keys, entity_type) ==
    Cardinality({k \in keys : StartsWith(k, entity_type \o <<"_">>)})

PairsOf(items) == {items[i] : i \in DOMAIN items}

UniqueKeys(items) == \A i, j \in DOMAIN items : items[i][1] = items[j][1] => i = j

Returned(p, op) == proc[p].pc = "done" /\ proc[p].op = op

Quiescent == \A p \in Procs : proc[p].pc \in {"idle", "done"}

\* p runs or has run a Deidentify whose load and loop went through.
InDeidentify(p) ==
    /\ proc[p].op = "deidentify"
    /\ proc[p].outcome # "error"
    /\ proc[p].loaded.kind = "dict"

\* The i-th span p's loop tokenized: the spans are given in ascending
\* order of start and tokenized from the last to the first.
SpanOf(p, i) == proc[p].results[Len(proc[p].results) - i + 1]

TagOf(p, i) == SpanOf(p, i).entity_type

\* The keys of p's in-memory mapping after its loop tokenized k spans.
KeysAfter(p, k) ==
    DictKeys(proc[p].loaded.items) \cup {proc[p].placed[j][1] : j \in 1..k}

FirstOfTag(p, i) ==
    CHOOSE f \in 1..i :
        /\ TagOf(p, f) = TagOf(p, i)
        /\ \A g \in 1..(f - 1) : TagOf(p, g) # TagOf(p, i)

\* One more than the keys starting with "E_" when the call first met E,
\* plus the placeholders of E the call generated before this one.
NumberAt(p, i) ==
    1 + TagCount(KeysAfter(p, FirstOfTag(p, i) - 1), TagOf(p, i))
      + Cardinality({j \in 1..(i - 1) : TagOf(p, j) = TagOf(p, i)})

(***************************************************************************)
(* C1.  Round trip: a Reidentify given the output of Deidentify(T, spans), *)
(* with no Clear in between, returns exactly T, for any text T, any        *)
(* non-overlapping spans and any store earlier Deidentify calls produced.  *)
(* The program does not satisfy it (T may contain the text of a            *)
(* placeholder).                                                           *)
(***************************************************************************)
C1_RoundTrip ==
    \A p \in Procs :
        (Returned(p, "reidentify") /\ proc[p].origin.valid)
            => (proc[p].outcome = "ok" /\ proc[p].out = proc[p].origin.text)

(***************************************************************************)
(* C2.  Store invariant (sequential use): after every operation the       *)
(* persisted mapping holds exactly the <<placeholder, original>> pairs the *)
(* Deidentify calls generated since the last Clear, each key once, each    *)
(* mapped to the substring of the text it replaced.                        *)
(***************************************************************************)
StoreHolds(r, pairs) ==
    /\ ~r.raised
    /\ r.val.kind = "dict"
    /\ UniqueKeys(r.val.items)
    /\ PairsOf(r.val.items) = pairs

ReplacedSubstrings(p) ==
    /\ Len(proc[p].placed) = Len(proc[p].results)
    /\ \A i \in DOMAIN proc[p].placed :
           proc[p].placed[i][2] =
               SubSeq(proc[p].text, SpanOf(p, i).start + 1, SpanOf(p, i).end)

C2_StoreInvariant ==
    Quiescent =>
        /\ StoreHolds(load_mappings(file), generated)
        /\ \A p \in Procs : Returned(p, "deidentify") => ReplacedSubstrings(p)

C2_Accumulated ==
    /\ Returned(MainProc, "deidentify")
    /\ proc[MainProc].outcome = "ok"
    /\ proc[MainProc].loaded.items # <<>>
    /\ proc[MainProc].placed # <<>>
    /\ Cardinality(generated) =
           Len(proc[MainProc].loaded.items) + Len(proc[MainProc].placed)

(***************************************************************************)
(* C3.  Placeholder allocation: every placeholder Deidentify generates for *)
(* entity type E is E, an underscore and n in 3 digits, n being one more   *)
(* than the number of keys starting with "E_" in the call's mapping when   *)
(* the call first met E, plus the number of placeholders of E the call had *)
(* generated before; from an empty store, two calls of one P span each     *)
(* produce P_001 and then P_002.                                           *)
(***************************************************************************)
C3_Allocation ==
    \A p \in Procs :
        InDeidentify(p) =>
            /\ Len(proc[p].placed) = Len(proc[p].results)
            /\ \A i \in DOMAIN proc[p].placed :
                   proc[p].placed[i][1] = PlaceholderOf(TagOf(p, i), NumberAt(p, i))
            /\ (Len(proc[p].results) = 1 /\ TagOf(p, 1) = T_P)
                   => /\ proc[p].loaded.items = <<>>
                          => proc[p].placed[1][1] = <<"P", "_", "0", "0", "1">>
                      /\ DictKeys(proc[p].loaded.items) = {<<"P", "_", "0", "0", "1">>}
                          => proc[p].placed[1][1] = <<"P", "_", "0", "0", "2">>

\* C3 as stated: n is one more than the number of keys starting with "E_"
\* in the mapping as it is when the placeholder is generated.
C3_CountsCurrentKeys ==
    \A p \in Procs :
        InDeidentify(p) =>
            \A i \in DOMAIN proc[p].placed :
                proc[p].placed[i][1] =
                    PlaceholderOf(TagOf(p, i), 1 + TagCount(KeysAfter(p, i - 1), TagOf(p, i)))

\* A call met P, then P_E, then P again: the second P is numbered from the
\* call's own counter.
C3_CachedCounter ==
    \E p \in Procs :
        /\ Returned(p, "deidentify")
        /\ InDeidentify(p)
        /\ \E i \in DOMAIN proc[p].placed :
               NumberAt(p, i) # 1 + TagCount(KeysAfter(p, i - 1), TagOf(p, i))

(***************************************************************************)
(* C4.  The race: two concurrent Deidentify calls that loaded the same     *)
(* mapping and tokenize one span each, of the same entity type, compute    *)
(* the same counter and return the same placeholder; once both have        *)
(* returned, a store that holds a mapping holds the mapping of one of the  *)
(* two calls, so that the placeholder has one of the two originals and the *)
(* other is lost.  C4_LostUpdate is such an interleaving.                  *)
(***************************************************************************)
Racing(p, q) ==
    /\ p # q
    /\ InDeidentify(p)
    /\ InDeidentify(q)
    /\ proc[p].loaded = proc[q].loaded
    /\ Len(proc[p].results) = 1
    /\ Len(proc[q].results) = 1
    /\ TagOf(p, 1) = TagOf(q, 1)

SamePlaceholder(p, q) ==
    /\ proc[p].placed[1][1] =
           PlaceholderOf(TagOf(p, 1),
               1 + TagCount(DictKeys(proc[p].loaded.items), TagOf(p, 1)))
    /\ proc[q].placed[1][1] = proc[p].placed[1][1]

OneSurvives(p, q, stored) ==
    (Returned(p, "deidentify") /\ Returned(q, "deidentify") /\ stored.mapping)
        => stored.val \in {proc[p].mappings, proc[q].mappings}

C4_Race ==
    \A p, q \in Procs :
        Racing(p, q) => (SamePlaceholder(p, q) /\ OneSurvives(p, q, StoredIn(file)))

C4_LostUpdate ==
    \E p, q \in Procs :
        /\ Racing(p, q)
        /\ Returned(p, "deidentify")
        /\ Returned(q, "deidentify")
        /\ proc[p].placed[1][1] = proc[q].placed[1][1]
        /\ proc[p].placed[1][2] # proc[q].placed[1][2]
        /\ StoredIn(file).mapping
        /\ StoredIn(file).val = proc[q].mappings
        /\ DictGet(StoredIn(file).val.items, proc[p].placed[1][1]) = proc[q].placed[1][2]
        /\ \A i \in DOMAIN StoredIn(file).val.items :
               StoredIn(file).val.items[i][2] # proc[p].placed[1][2]

(***************************************************************************)
(* C5.  Critical section: between a Deidentify's load of the mapping and   *)
(* its save, and during the write of a Clear, no other handler's           *)
(* Deidentify or Clear writes the store and no other handler's Reidentify  *)
(* loads it.  The program does not satisfy it (it takes no lock).          *)
(***************************************************************************)
InCritical(p) ==
    \/ proc[p].op = "deidentify" /\ proc[p].pc \in {"open", "write"}
    \/ proc[p].op = "clear" /\ proc[p].pc = "write"

\* This step is q's open or write of the file.
WritesStore(q) ==
    /\ proc[q].op \in {"deidentify", "clear"}
    /\ proc[q].pc \in {"open", "write"}
    /\ proc'[q].pc # proc[q].pc

\* This step is q's Reidentify, which loads the mapping.
ReidentifyLoads(q) ==
    /\ proc'[q] # proc[q]
    /\ proc'[q].pc = "done"
    /\ proc'[q].op = "reidentify"

C5_CriticalSection ==
    [][\A p \in Procs : InCritical(p) =>
           \A q \in Procs \ {p} : ~WritesStore(q) /\ ~ReidentifyLoads(q)]_vars

(***************************************************************************)
(* C6.  Atomic save: a load that runs concurrently with or after a save    *)
(* returns the mapping stored before the save or the one being saved,      *)
(* never what a truncated or partly written file reads as.  The program    *)
(* does not satisfy it.                                                    *)
(***************************************************************************)
C6_AtomicSave == \A p \in Procs : proc[p].legit

(***************************************************************************)
(* C7.  A failed write of the store is not swallowed: a Deidentify or      *)
(* Clear whose save failed ends in an error, and a Deidentify that         *)
(* returned its tokenized text has its save done, the store holding every  *)
(* placeholder of the text with its original.                              *)
(***************************************************************************)
Persisted(p, r) ==
    /\ ~r.raised
    /\ \A i \in DOMAIN proc[p].placed :
           r.val.kind = "dict" /\ proc[p].placed[i] \in PairsOf(r.val.items)

C7_WriteFailure ==
    \A p \in Procs :
        /\ proc[p].failed => proc[p].outcome = "error"
        /\ (Returned(p, "deidentify") /\ proc[p].outcome = "ok")
               => (~proc[p].failed /\ Persisted(p, load_mappings(file)))

C7_SaveFailed ==
    \E p \in Procs :
        /\ Returned(p, "deidentify")
        /\ proc[p].failed
        /\ proc[p].placed # <<>>
        /\ proc[p].outcome = "error"
        /\ ~Persisted(p, load_mappings(file))

(***************************************************************************)
(* C8.  load never fails: it returns the stored mapping when the file      *)
(* holds one, and the empty mapping, without raising, when the file is     *)
(* absent, unreadable or not a JSON text.  The program does not satisfy    *)
(* it (it catches json.JSONDecodeError alone).                             *)
(***************************************************************************)
NoJsonText(f, decoded) ==
    \/ ~f.exists
    \/ ~f.readable
    \/ ~decoded.ok
    \/ ~JsonLoads(decoded.chars).ok

LoadAnswers(p, f) ==
    /\ proc[p].outcome = "ok"
    /\ (f.readable /\ StoredIn(f).mapping) => proc[p].loaded = StoredIn(f).val
    /\ NoJsonText(f, Utf8Decode(f.bytes)) => proc[p].loaded = EmptyDict

C8_LoadNeverFails ==
    \A p \in Procs : Returned(p, "load") => LoadAnswers(p, file)

(***************************************************************************)
(* C9.  Recovery from a corrupt store: a Deidentify that finds the file    *)
(* holding no mapping completes without error as if the store were empty,  *)
(* its placeholders numbered from 001 for each entity type, and leaves a   *)
(* well-formed store of exactly its own entries.  The program does not     *)
(* satisfy it (bytes that are no UTF-8 text, a JSON array).                *)
(***************************************************************************)
Recovered(p, stored) ==
    /\ proc[p].outcome = "ok"
    /\ proc[p].loaded = EmptyDict
    /\ Len(proc[p].placed) = Len(proc[p].results)
    /\ \A i \in DOMAIN proc[p].placed :
           proc[p].placed[i][1] = PlaceholderOf(TagOf(p, i), NumberAt(p, i))
    /\ stored.mapping
    /\ PairsOf(stored.val.items) = PairsOf(proc[p].placed)

C9_CorruptRecovery ==
    \A p \in Procs :
        (Returned(p, "deidentify") /\ proc[p].malformed /\ ~proc[p].failed)
            => Recovered(p, StoredIn(file))

(***************************************************************************)
(* C10.  Save/load round trip: load_mappings() after save_mappings(m),     *)
(* with no other write in between, returns exactly m, for the mappings m   *)
(* of strings to strings, non-ASCII characters, quotes, backslashes and    *)
(* newlines included.                                                      *)
(***************************************************************************)
C10_SaveLoad ==
    \A p \in Procs :
        Returned(p, "load") => (proc[p].outcome = "ok" /\ proc[p].loaded = committed)

C10_NonAsciiLoaded ==
    \E p \in Procs :
        /\ Returned(p, "load")
        /\ proc[p].loaded = committed
        /\ Len(proc[p].loaded.items) = MaxSaveItems
        /\ \E i \in DOMAIN proc[p].loaded.items :
               /\ QUOTE \in {proc[p].loaded.items[i][1][k] :
                                k \in DOMAIN proc[p].loaded.items[i][1]}
               /\ proc[p].loaded.items[i][2] = <<U_E9>>

(***************************************************************************)
(* C11.  Clear: clear_mappings() leaves the file as save_mappings({})      *)
(* leaves it, the JSON text {}; whatever the store held before, a load     *)
(* after it, with no other save in between, returns the empty mapping.     *)
(***************************************************************************)
EmptyObjectFile(f) == f.exists /\ f.bytes = <<"{", "}">>

LoadsEmpty(r) == ~r.raised /\ r.val = EmptyDict

C11_Clear ==
    \A p \in Procs :
        /\ (Returned(p, "clear") /\ proc[p].outcome = "ok")
               => /\ EmptyObjectFile(file)
                  /\ committed = EmptyDict
                  /\ LoadsEmpty(load_mappings(file))
        /\ (Returned(p, "save") /\ proc[p].mappings = EmptyDict)
               => EmptyObjectFile(file)
        /\ (Returned(p, "load") /\ committed = EmptyDict)
               => (proc[p].outcome = "ok" /\ proc[p].loaded = EmptyDict)

C11_ClearedNonEmpty ==
    \E p \in Procs :
        /\ Returned(p, "clear")
        /\ proc[p].outcome = "ok"
        /\ Len(proc[p].before.items) = MaxSaveItems
        /\ EmptyObjectFile(file)

Returns(fn) == call.fn = fn /\ call.done

\* The spans in ascending order of start, spans of equal start in their
\* order in `results`.
AscendingOrder(results) ==
    LET perm == CHOOSE f \in [DOMAIN results -> DOMAIN results] :
                    /\ \A i, j \in DOMAIN results : f[i] = f[j] => i = j
                    /\ \A i, j \in DOMAIN results :
                           i < j => \/ results[f[i]].start < results[f[j]].start
                                    \/ /\ results[f[i]].start = results[f[j]].start
                                       /\ f[i] < f[j]
    IN  [i \in DOMAIN results |-> results[perm[i]]]

(***************************************************************************)
(* C12.  Adjacency merge: with the spans in ascending order of start, two  *)
(* PERSON spans consecutive in that order are merged if and only if the    *)
(* second starts at most 3 characters after the end of the first; each     *)
(* maximal run, of 1 or more spans, becomes one PERSON span from the       *)
(* first's start to the last's end with the first's score, every other     *)
(* span stays as it is, and PERSON [0,5) with PERSON [7,11) gives exactly  *)
(* the span [0,11).                                                        *)
(***************************************************************************)
Linked(S, k) ==
    /\ k \in 2..Len(S)
    /\ S[k - 1].entity_type = T_PERSON
    /\ S[k].entity_type = T_PERSON
    /\ S[k].start <= S[k - 1].end + 3

RunStarts(S) == {k \in DOMAIN S : ~Linked(S, k)}

RunEnd(S, k) ==
    CHOOSE e \in k..Len(S) :
        /\ \A m \in (k + 1)..e : Linked(S, m)
        /\ ~Linked(S, e + 1)

NthRunStart(S, n) ==
    CHOOSE k \in RunStarts(S) : Cardinality({j \in RunStarts(S) : j < k}) = n - 1

RunMerged(S, k) ==
    IF S[k].entity_type = T_PERSON
    THEN [start |-> S[k].start, end |-> S[RunEnd(S, k)].end,
          entity_type |-> T_PERSON, score |-> S[k].score]
    ELSE S[k]

RunsMerged(S, returned) ==
    /\ Len(returned) = Cardinality(RunStarts(S))
    /\ \A n \in DOMAIN returned : returned[n] = RunMerged(S, NthRunStart(S, n))

C12_AdjacencyMerge ==
    Returns("merge_adjacent_persons") =>
        /\ RunsMerged(AscendingOrder(call.results), call.returned)
        /\ call.results = SmithJohn
               => call.returned =
                      <<[start |-> 0, end |-> 11, entity_type |-> T_PERSON,
                         score |-> 85]>>

\* Three PERSON spans, not given in order, that make one run.
C12_RunOfThree ==
    /\ Returns("merge_adjacent_persons")
    /\ Len(call.results) = 3
    /\ call.results # AscendingOrder(call.results)
    /\ Len(call.returned) = 1
    /\ \E k \in 2..3 :
           AscendingOrder(call.results)[k].start
               = AscendingOrder(call.results)[k - 1].end + 3

(***************************************************************************)
(* C13.  Pattern-augmentation gating: every span that the pattern          *)
(* augmentation adds is a PERSON span with score 0.85 covering the         *)
(* capitalized word of a "capitalized word, comma, one or more whitespace" *)
(* match, and some PERSON span of the input starts at an offset in         *)
(* [comma_end, comma_end + 2], comma_end being where the match ends (the   *)
(* code's comma_position, after the whitespace); the input spans are       *)
(* returned first and unchanged, and with no PERSON span in the input      *)
(* nothing is added.                                                       *)
(***************************************************************************)
LastnameMatch(text, s, e, c) ==
    /\ 0 <= s /\ s + 2 <= e /\ e + 2 <= c /\ c <= Len(text)
    /\ s = 0 \/ text[s] \notin WordChars
    /\ text[s + 1] \in UpperChars
    /\ \A k \in (s + 2)..e : text[k] \in LowerChars
    /\ text[e + 1] = ","
    /\ \A k \in (e + 2)..c : text[k] \in WhitespaceChars
    /\ c = Len(text) \/ text[c + 1] \notin WhitespaceChars

Added == SubSeq(call.returned, Len(call.results) + 1, Len(call.returned))

PersonStartsIn(lo, hi) ==
    \E j \in DOMAIN call.results :
        /\ call.results[j].entity_type = T_PERSON
        /\ call.results[j].start \in lo..hi

Occurs(name, s, e) ==
    /\ 0 <= s /\ e = s + Len(name) /\ e <= Len(call.text)
    /\ IsWordAt(call.text, s - 1) # IsWordAt(call.text, s)
    /\ IsWordAt(call.text, e - 1) # IsWordAt(call.text, e)
    /\ \A k \in 1..Len(name) : LowerOf(call.text[s + k]) = LowerOf(name[k])

Free(s, e) ==
    \A j \in DOMAIN call.results :
        call.results[j].end <= s \/ e <= call.results[j].start

Injected(s, e) ==
    {i \in DOMAIN Added :
        Added[i] = [start |-> s, end |-> e, entity_type |-> T_PERSON, score |-> 100]}

C14_EveryOccurrence ==
    Returns("add_custom_names") =>
        \A n \in DOMAIN call.list : \A s, e \in 0..Len(call.text) :
            (Occurs(call.list[n], s, e) /\ Free(s, e))
                => Cardinality(Injected(s, e))
                       = Cardinality({m \in DOMAIN call.list : Occurs(call.list[m], s, e)})

\* `returned` is `results` without the spans at the indices in `dropped`,
\* the others in their order.
Without(results, dropped, returned) ==
    /\ Len(returned) = Len(results) - Cardinality(dropped)
    /\ \A n \in DOMAIN returned :
           \E i \in DOMAIN results \ dropped :
               /\ Cardinality({j \in 1..i : j \notin dropped}) = n
               /\ returned[n] = results[i]

(***************************************************************************)
(* C15.  Type filter: with a non-empty list of enabled types,              *)
(* filter_by_entity_types returns exactly the spans whose entity_type is   *)
(* in the list, in input order; with an empty list or None it returns all  *)
(* the input spans unchanged.                                              *)
(***************************************************************************)
Disabled ==
    {i \in DOMAIN call.results :
        \A k \in DOMAIN call.list.items :
            call.list.items[k] # call.results[i].entity_type}

C15_TypeFilter ==
    Returns("filter_by_entity_types") =>
        IF ~call.list.none /\ Len(call.list.items) > 0
        THEN Without(call.results, Disabled, call.returned)
        ELSE call.returned = call.results

\* Two enabled types, three spans, and the one in the middle is dropped.
C15_MiddleDropped ==
    /\ Returns("filter_by_entity_types")
    /\ Len(call.list.items) = 2
    /\ Len(call.results) = 3
    /\ call.returned = <<call.results[1], call.results[3]>>
    /\ call.results[1].entity_type # call.results[3].entity_type

(***************************************************************************)
(* C16.  Ignore filter: a span is dropped if and only if the text it       *)
(* covers is equal, character for character in the same case and as a      *)
(* whole, to an entry of the ignore list; the other spans are kept in      *)
(* their order.                                                            *)
(***************************************************************************)
CoveredText(i) == SubSeq(call.text, call.results[i].start + 1, call.results[i].end)

InIgnoreList ==
    {i \in DOMAIN call.results :
        \E k \in DOMAIN call.list :
            /\ Len(call.list[k]) = Len(CoveredText(i))
            /\ \A c \in DOMAIN call.list[k] : call.list[k][c] = CoveredText(i)[c]}

C16_IgnoreFilter ==
    Returns("filter_ignore_list") =>
        Without(call.results, InIgnoreList, call.returned)

\* "Jo" is on the list: the span on "Jo" is dropped and the span on "jo" is
\* kept, as is a span on a text that begins an entry.
C16_ExactOnly ==
    /\ Returns("filter_ignore_list")
    /\ Len(call.results) = 2
    /\ Len(call.returned) = 1
    /\ \E k \in DOMAIN call.list : call.list[k] = W_Jo
    /\ \E k \in DOMAIN call.list : call.list[k] = <<"J", "o", SP>>
    /\ \E i \in DOMAIN call.results : CoveredText(i) = W_Jo
    /\ \E i \in DOMAIN call.results : CoveredText(i) = W_jo

(***************************************************************************)
(* C17.  Reidentify is read-only: whatever the text and whatever the       *)
(* mapping file holds, a Reidentify leaves the file, and so the mapping    *)
(* persisted in it, as it was; when it returns, the entity count is 0,     *)
(* and with an empty store the text returned is the text given.            *)
(***************************************************************************)
Reidentifies(p) == proc'[p].op = "reidentify" /\ proc'[p] # proc[p]

C17_ReadOnly ==
    [][\A p \in Procs :
          Reidentifies(p) =>
              /\ file' = file
              /\ load_mappings(file') = load_mappings(file)
              /\ proc'[p].outcome = "ok" =>
                     /\ proc'[p].count = 0
                     /\ LoadsEmpty(load_mappings(file))
                            => proc'[p].out = proc'[p].text]_vars

\* A Reidentify has restored a value from a store that holds entries, and
\* the store still holds them.
C17_Restored ==
    \E p \in Procs :
        /\ Returned(p, "reidentify")
        /\ proc[p].outcome = "ok"
        /\ proc[p].out # proc[p].text
        /\ proc[p].loaded.items # <<>>
        /\ ~load_mappings(file).raised
        /\ load_mappings(file).val = proc[p].loaded

(***************************************************************************)
(* C18.  Nested placeholder value: with the store holding PERSON_001 ->    *)
(* "John PERSON_002" and PERSON_002 -> "Smith", written in either order,   *)
(* Reidentify("PERSON_001") returns a text in which "PERSON_002" does not  *)
(* occur.                                                                  *)
(***************************************************************************)
OccursIn(word, text) ==
    \E i \in 1..(Len(text) - Len(word) + 1) :
        SubSeq(text, i, i + Len(word) - 1) = word

HoldsNested(mappings) ==
    /\ mappings.kind = "dict"
    /\ Len(mappings.items) = 2
    /\ \E i \in 1..2 : mappings.items[i] = <<PERSON_001, W_John \o <<SP>> \o PERSON_002>>
    /\ \E i \in 1..2 : mappings.items[i] = <<PERSON_002, W_Smith>>

C18_NestedExpanded ==
    \A p \in Procs :
        (/\ Returned(p, "reidentify")
         /\ proc[p].outcome = "ok"
         /\ proc[p].text = PERSON_001
         /\ HoldsNested(proc[p].loaded))
            => ~OccursIn(PERSON_002, proc[p].out)

(***************************************************************************)
(* C19.  Anonymize on clean input: for any text, the empty text included,  *)
(* Anonymize with no resolved span returns the text unchanged and an       *)
(* entity count of 0.                                                      *)
(***************************************************************************)
C19_CleanInput ==
    \A p \in Procs :
        (Returned(p, "anonymize") /\ proc[p].results = <<>>)
            => /\ proc[p].outcome = "ok"
               /\ proc[p].out = proc[p].text
               /\ proc[p].count = 0

\* A text of several characters and no span has been anonymized.
C19_CleanText ==
    /\ Returned(MainProc, "anonymize")
    /\ proc[MainProc].results = <<>>
    /\ Len(proc[MainProc].text) > Len(W_P_001)
    /\ proc[MainProc].out = proc[MainProc].text

(***************************************************************************)
(* C20.  Deidentify substitution: for pairwise non-overlapping spans, the  *)
(* text returned is the text given with the substring each span covers     *)
(* replaced by that span's own placeholder, every character outside the    *)
(* spans unchanged and in order; the mapping holds, for each placeholder,  *)
(* the substring text[start:end] of the text given; and the count          *)
(* returned is the number of spans.                                        *)
(***************************************************************************)
Apart(results) ==
    \A i, j \in DOMAIN results :
        i < j => results[i].end <= results[j].start

\* The placeholder that stands for the k-th span in ascending order of
\* start: the spans are tokenized from the last to the first.
PlaceholderAt(p, k) == proc[p].placed[Len(proc[p].results) - k + 1][1]

\* The text from offset `from` on, the spans k, k + 1, ... replaced.
RECURSIVE Substituted(_, _, _)
Substituted(p, k, from) ==
    IF k > Len(proc[p].results)
    THEN SubSeq(proc[p].text, from + 1, Len(proc[p].text))
    ELSE SubSeq(proc[p].text, from + 1, proc[p].results[k].start)
         \o PlaceholderAt(p, k)
         \o Substituted(p, k + 1, proc[p].results[k].end)

C20_Substitution ==
    \A p \in Procs :
        (InDeidentify(p) /\ Apart(proc[p].results)) =>
            /\ proc[p].count = Len(proc[p].results)
            /\ Len(proc[p].placed) = Len(proc[p].results)
            /\ proc[p].out = Substituted(p, 1, 0)
            /\ \A k \in DOMAIN proc[p].results :
                   /\ PlaceholderAt(p, k) \in DictKeys(proc[p].mappings.items)
                   /\ DictGet(proc[p].mappings.items, PlaceholderAt(p, k))
                          = SubSeq(proc[p].text, proc[p].results[k].start + 1,
                                   proc[p].results[k].end)

\* Two spans with text between them, tokenized into a store that held an
\* entry already.
C20_TwoSpans ==
    /\ Returned(MainProc, "deidentify")
    /\ proc[MainProc].outcome = "ok"
    /\ Len(proc[MainProc].results) = 2
    /\ proc[MainProc].results[1].end < proc[MainProc].results[2].start
    /\ proc[MainProc].loaded.items # <<>>
    /\ proc[MainProc].out = Substituted(MainProc, 1, 0)

(***************************************************************************)
(* C21.  Longest-first replacement: with the store holding PERSON_100 and  *)
(* PERSON_1000, in either order, with values that contain no placeholder,  *)
(* Reidentify replaces every occurrence of PERSON_1000 by its own value,   *)
(* never by the value of PERSON_100 followed by the "0" left over: the     *)
(* text returned is the text given read from left to right, the longer     *)
(* placeholder tried first at each offset.                                 *)
(***************************************************************************)
HoldsPrefixed(mappings) ==
    /\ mappings.kind = "dict"
    /\ Len(mappings.items) = 2
    /\ \E i \in 1..2 : mappings.items[i] = <<PERSON_100, W_John>>
    /\ \E i \in 1..2 : mappings.items[i] = <<PERSON_1000, W_Smith>>

StartsAt(word, text, i) ==
    /\ i + Len(word) - 1 <= Len(text)
    /\ SubSeq(text, i, i + Len(word) - 1) = word

RECURSIVE LongestFirst(_, _)
LongestFirst(text, i) ==
    IF i > Len(text) THEN <<>>
    ELSE IF StartsAt(PERSON_1000, text, i)
         THEN W_Smith \o LongestFirst(text, i + Len(PERSON_1000))
    ELSE IF StartsAt(PERSON_100, text, i)
         THEN W_John \o LongestFirst(text, i + Len(PERSON_100))
    ELSE <<text[i]>> \o LongestFirst(text, i + 1)

C21_LongestFirst ==
    \A p \in Procs :
        (/\ Returned(p, "reidentify")
         /\ proc[p].outcome = "ok"
         /\ HoldsPrefixed(proc[p].loaded))
            => proc[p].out = LongestFirst(proc[p].text, 1)

\* The shorter placeholder was stored first, and the text holds both.
C21_ShorterStoredFirst ==
    /\ Returned(MainProc, "reidentify")
    /\ HoldsPrefixed(proc[MainProc].loaded)
    /\ proc[MainProc].loaded.items[1][1] = PERSON_100
    /\ proc[MainProc].text = PERSON_100 \o PERSON_1000 \o <<"0">>
    /\ proc[MainProc].out = W_John \o W_Smith \o <<"0">>

(***************************************************************************)
(* C22.  Custom-name injection never overlaps kept spans: no span that     *)
(* add_custom_names adds intersects, as a half-open interval, a span of    *)
(* its input, a span lying strictly inside the matched name included.      *)
(***************************************************************************)
Intersect(a, b) == a.start < b.end /\ b.start < a.end

C22_NoOverlap ==
    Returns("add_custom_names") =>
        \A i \in DOMAIN Added : \A j \in DOMAIN call.results :
            ~Intersect(Added[i], call.results[j])

(***************************************************************************)
(* C23.  Pattern augmentation never overlaps existing spans: a lastname    *)
(* span that post_process_lastname_firstname adds overlaps no span of its  *)
(* input, of whatever entity type.                                         *)
(***************************************************************************)
C23_NoOverlap ==
    Returns("post_process_lastname_firstname") =>
        \A i \in DOMAIN Added : \A j \in DOMAIN call.results :
            \/ Added[i].end <= call.results[j].start
            \/ call.results[j].end <= Added[i].start

(***************************************************************************)
(* C24.  Merge frame: every non-PERSON span of the input of the adjacency  *)
(* merge is in its output exactly once and unchanged (start, end, type     *)
(* and score), and the output is in ascending order of start.              *)
(***************************************************************************)
Times(span, spans) == Cardinality({i \in DOMAIN spans : spans[i] = span})

C24_MergeFrame ==
    Returns("merge_adjacent_persons") =>
        /\ \A j \in DOMAIN call.results :
               call.results[j].entity_type # T_PERSON
                   => Times(call.results[j], call.returned)
                          = Times(call.results[j], call.results)
        /\ \A n \in DOMAIN call.returned :
               call.returned[n].entity_type # T_PERSON
                   => Times(call.returned[n], call.results) > 0
        /\ \A n, m \in DOMAIN call.returned :
               n < m => call.returned[n].start <= call.returned[m].start

\* A non-PERSON span given first and starting last, after two PERSON spans
\* that merge.
C24_PassedThrough ==
    /\ Returns("merge_adjacent_persons")
    /\ Len(call.results) = 3
    /\ call.results[1].entity_type = T_LOCATION
    /\ call.results[1].start > call.results[2].start
    /\ call.results[1].start > call.results[3].start
    /\ Len(call.returned) = 2
    /\ call.returned[2] = call.results[1]

(***************************************************************************)
(* C25.  Merge preserves coverage: every position of the text inside some  *)
(* PERSON span of the input of the adjacency merge is inside some PERSON   *)
(* span of its output, also when PERSON spans overlap or nest.             *)
(***************************************************************************)
PersonCovers(spans, pos) ==
    \E i \in DOMAIN spans :
        /\ spans[i].entity_type = T_PERSON
        /\ spans[i].start <= pos
        /\ pos < spans[i].end

C25_CoveragePreserved ==
    Returns("merge_adjacent_persons") =>
        \A j \in DOMAIN call.results :
            call.results[j].entity_type = T_PERSON
                => \A pos \in call.results[j].start .. (call.results[j].end - 1) :
                       PersonCovers(call.returned, pos)

(***************************************************************************)
(* C30.  Merge is idempotent: the adjacency merge applied to its own       *)
(* output returns that output, element for element.                        *)
(***************************************************************************)
C30_Idempotent ==
    Returns("merge_adjacent_persons") =>
        merge_adjacent_persons(call.text, call.returned) = call.returned

\* Three spans in, two PERSON spans out: a run of two was merged and a third
\* PERSON span, more than three characters away, was not.
C30_MergedOnce ==
    /\ Returns("merge_adjacent_persons")
    /\ Len(call.results) = 3
    /\ Len(call.returned) = 2
    /\ \A n \in DOMAIN call.returned : call.returned[n].entity_type = T_PERSON
    /\ call.returned[2].start - call.returned[1].end > MergeGap

(***************************************************************************)
(* C27.  Fresh placeholders: in a sequential run from an empty store, with *)
(* tags of which one is a prefix of another (P and P_E), every placeholder *)
(* a Deidentify call allocates is not a key of the mapping it had when the *)
(* placeholder was generated; so a call with k spans adds exactly k        *)
(* entries, equal originals under distinct placeholders, and every entry   *)
(* it loaded is still there with its value.                                *)
(***************************************************************************)
C27_Fresh ==
    \A p \in Procs :
        (InDeidentify(p) /\ proc[p].pc # "idle") =>
            /\ \A i \in DOMAIN proc[p].placed :
                   proc[p].placed[i][1] \notin KeysAfter(p, i - 1)
            /\ Len(proc[p].placed) = Len(proc[p].results)
            /\ Len(proc[p].mappings.items)
                   = Len(proc[p].loaded.items) + Len(proc[p].results)
            /\ UniqueKeys(proc[p].mappings.items)
            /\ \A j \in DOMAIN proc[p].loaded.items :
                   proc[p].mappings.items[j] = proc[p].loaded.items[j]

\* A call that loaded a P_E key and tokenized "a" twice as P: the two get
\* distinct placeholders, numbered past the P_E key.
C27_EqualOriginals ==
    /\ Returned(MainProc, "deidentify")
    /\ InDeidentify(MainProc)
    /\ DictKeys(proc[MainProc].loaded.items) = {FormatPlaceholder(T_P_E, 1)}
    /\ Len(proc[MainProc].placed) = 2
    /\ TagOf(MainProc, 1) = T_P
    /\ TagOf(MainProc, 2) = T_P
    /\ proc[MainProc].placed[1][2] = proc[MainProc].placed[2][2]
    /\ proc[MainProc].placed[1][1] = FormatPlaceholder(T_P, 2)
    /\ proc[MainProc].placed[2][1] = FormatPlaceholder(T_P, 3)

(***************************************************************************)
(* C26.  Clear is final under concurrency: once a Clear has completed, an  *)
(* entry the store held when that Clear began is written to the store      *)
(* again only by a Deidentify that started after the Clear completed; a    *)
(* Deidentify that loaded the mapping before does not write it back.       *)
(***************************************************************************)
\* The entries q's save writes that the store held when p's Clear began.
WrittenBack(p, q) ==
    PairsOf(proc[p].before.items) \cap PairsOf(proc[q].mappings.items)

C26_ClearFinal ==
    [][\A p \in Procs : \A q \in Procs \ {p} :
           (/\ Returned(p, "clear")
            /\ proc[p].outcome = "ok"
            /\ Completes(q, "deidentify")
            /\ WrittenBack(p, q) # {})
               => proc[q].started > proc[p].finished]_vars

(***************************************************************************)
(* C28.  Enabled-type policy end to end: when the enabled set is given and *)
(* not empty, every span the resolver returns (after the type filter, the  *)
(* ignore filter, the custom names, the pattern augmentation and the       *)
(* merge) has an entity type of the enabled set.                           *)
(***************************************************************************)
C28_EnabledOnly ==
    (Returns("resolve") /\ ~NoneEnabled(call.list.enabled_entities)) =>
        \A n \in DOMAIN call.returned :
            \E k \in DOMAIN call.list.enabled_entities.items :
                call.list.enabled_entities.items[k] = call.returned[n].entity_type

(***************************************************************************)
(* C29.  Span well-formedness preserved: the raw spans satisfying          *)
(* 0 <= start < end <= len(text), every span the resolver returns does     *)
(* too, whatever the ignore list and the custom names, an empty name       *)
(* included.                                                               *)
(***************************************************************************)
WellFormed(text, spans) ==
    \A n \in DOMAIN spans :
        /\ 0 <= spans[n].start
        /\ spans[n].start < spans[n].end
        /\ spans[n].end <= Len(text)

C29_WellFormed ==
    (Returns("resolve") /\ WellFormed(call.text, call.results)) =>
        WellFormed(call.text, call.returned)

====
